---- MODULE Spec2Model ----
(***************************************************************************)
(* Model of tle.js (src/tle.js): the TLE text machinery (parseTLE,         *)
(* tleLineChecksum, isValidTLE, the generated field getters), the epoch    *)
(* conversion, and the memoised getSatelliteInfo with the operations built *)
(* on it.  Strings are sequences of one-character strings.  The external   *)
(* SGP4 library (satellite.js) is a black box: what it returns is kept     *)
(* symbolic, as the quantity computed and the arguments it was computed    *)
(* from.                                                                   *)
(***************************************************************************)
EXTENDS Integers, Sequences, FiniteSets, TLC

VARIABLES
  op,         \* the operation that ran last ("init" before any)
  args,       \* its arguments
  ret,        \* its outcome: [ok |-> TRUE, val |-> v] or [ok |-> FALSE, val |-> message]
  cache,      \* tle.cache: key string -> stored observation
  now,        \* the clock read by Date.now()
  thisYear,   \* (new Date()).getFullYear()
  propCalls,  \* how many times the last operation invoked the external propagator
  wrote,      \* the cache keys the last operation assigned, in order
  returned,   \* history: argument tuples of getSatelliteInfo calls that returned, with the result
  calls       \* how many operations ran so far

vars == <<op, args, ret, cache, now, thisYear, propCalls, wrote, returned, calls>>

----------------------------------------------------------------------------
(* tleLines: the fixed-column field table (0-based start, length) *)

tleLines ==
  [lineNumber1 |-> [line |-> 1, start |-> 0, length |-> 1],
   epochYear   |-> [line |-> 1, start |-> 18, length |-> 2],
   epochDay    |-> [line |-> 1, start |-> 20, length |-> 12],
   checksum1   |-> [line |-> 1, start |-> 68, length |-> 1],
   lineNumber2 |-> [line |-> 2, start |-> 0, length |-> 1],
   checksum2   |-> [line |-> 2, start |-> 68, length |-> 1]]

----------------------------------------------------------------------------
(* JavaScript values *)

Ok(v) == [ok |-> TRUE, val |-> v]
Err(m) == [ok |-> FALSE, val |-> m]

\* undefined / a present value, for optional arguments
Undef == <<>>
Some(v) == <<v>>

NL == "\n"
WhiteSpace == {" ", NL}
Digit == {"0", "1", "2", "3", "4", "5", "6", "7", "8", "9"}

DigitVal(c) ==
  CASE c = "0" -> 0 [] c = "1" -> 1 [] c = "2" -> 2 [] c = "3" -> 3 [] c = "4" -> 4
    [] c = "5" -> 5 [] c = "6" -> 6 [] c = "7" -> 7 [] c = "8" -> 8 [] c = "9" -> 9

\* numbers: sign, integer part, fraction in units of 10^-8; NaN apart
\* the epochDay field reads DDD.DDDDDDDD: what follows the point
FracDigits == tleLines.epochDay.length - 4
NaNValue == [t |-> "nan"]
Num(n) == [t |-> "num", neg |-> n < 0, ip |-> IF n < 0 THEN 0 - n ELSE n, fp |-> 0]
StrVal(s) == [t |-> "str", s |-> s]

\* a === b on values produced by the getters and tleLineChecksum
StrictEq(a, b) == a.t = b.t /\ a.t # "nan" /\ a = b

StrValue(tleStr) == [type |-> "string", str |-> tleStr]
ArrValue(tleArr) == [type |-> "array", items |-> tleArr]
ParsedValue(name, arr) == [type |-> "object", hasArr |-> TRUE, name |-> name, arr |-> arr]
BareObject == [type |-> "object", hasArr |-> FALSE, name |-> <<>>, arr |-> <<>>]
NumberValue == [type |-> "number"]

----------------------------------------------------------------------------
(* String primitives *)

RECURSIVE Split(_, _)
Split(s, sep) ==
  IF \A i \in 1..Len(s) : s[i] # sep
  THEN <<s>>
  ELSE LET k == CHOOSE i \in 1..Len(s) : s[i] = sep /\ \A j \in 1..(i - 1) : s[j] # sep
       IN <<SubSeq(s, 1, k - 1)>> \o Split(SubSeq(s, k + 1, Len(s)), sep)

TrimStart(s) ==
  IF \A i \in 1..Len(s) : s[i] \in WhiteSpace THEN <<>>
  ELSE LET k == CHOOSE i \in 1..Len(s) :
                  s[i] \notin WhiteSpace /\ \A j \in 1..(i - 1) : s[j] \in WhiteSpace
       IN SubSeq(s, k, Len(s))

TrimEnd(s) ==
  IF \A i \in 1..Len(s) : s[i] \in WhiteSpace THEN <<>>
  ELSE LET k == CHOOSE i \in 1..Len(s) :
                  s[i] \notin WhiteSpace /\ \A j \in (i + 1)..Len(s) : s[j] \in WhiteSpace
       IN SubSeq(s, 1, k)

Trim(s) == TrimEnd(TrimStart(s))

\* String.prototype.substr(start, length), start >= 0
Substr(s, start, length) ==
  IF start >= Len(s) THEN <<>>
  ELSE SubSeq(s, start + 1, IF start + length > Len(s) THEN Len(s) ELSE start + length)

RECURSIVE DigitRun(_)
DigitRun(s) == IF s # <<>> /\ Head(s) \in Digit THEN <<Head(s)>> \o DigitRun(Tail(s)) ELSE <<>>

RECURSIVE DigitsToInt(_)
DigitsToInt(ds) ==
  IF ds = <<>> THEN 0 ELSE DigitsToInt(SubSeq(ds, 1, Len(ds) - 1)) * 10 + DigitVal(ds[Len(ds)])

RECURSIVE PadZeros(_, _)
PadZeros(ds, n) == IF Len(ds) >= n THEN SubSeq(ds, 1, n) ELSE PadZeros(ds \o <<"0">>, n)

\* parseFloat: leading white space, an optional sign, digits, an optional fraction;
\* what follows is ignored; NaN without a digit
ParseFloat(str) ==
  LET s0 == TrimStart(str)
      signed == s0 # <<>> /\ Head(s0) \in {"-", "+"}
      neg == s0 # <<>> /\ Head(s0) = "-"
      s1 == IF signed THEN Tail(s0) ELSE s0
      ipDigits == DigitRun(s1)
      s2 == SubSeq(s1, Len(ipDigits) + 1, Len(s1))
      fpDigits == IF s2 # <<>> /\ Head(s2) = "." THEN DigitRun(Tail(s2)) ELSE <<>>
      ip == DigitsToInt(ipDigits)
      fp == DigitsToInt(PadZeros(fpDigits, FracDigits))
  IN IF ipDigits = <<>> /\ fpDigits = <<>> THEN NaNValue
     ELSE [t |-> "num", neg |-> neg /\ (ip # 0 \/ fp # 0), ip |-> ip, fp |-> fp]

\* parseInt of one character
ParseIntChar(c) == IF c \in Digit THEN Num(DigitVal(c)) ELSE NaNValue

\* Number(c) of a one-character string, as the % operator converts it
ToNumberChar(c) ==
  IF c \in Digit THEN Num(DigitVal(c)) ELSE IF c \in WhiteSpace THEN Num(0) ELSE NaNValue

----------------------------------------------------------------------------
(* parseTLE *)

Unknown == <<"U", "n", "k", "n", "o", "w", "n">>

\* the mutant: the "already parsed" test is gone and the record's lines are parsed again
parseTLEReparsing(tle) ==
  IF tle.type \notin {"array", "string"} /\ ~(tle.type = "object" /\ tle.hasArr)
  THEN Err("TLE passed is invalid type")
  ELSE LET tleArr == IF tle.type = "array" THEN tle.items
                     ELSE IF tle.type = "object" THEN tle.arr ELSE Split(tle.str, NL)
           named == Len(tleArr) > 2
           rest == IF named THEN Tail(tleArr) ELSE tleArr
       IN Ok(ParsedValue(IF named THEN tleArr[1] ELSE Unknown,
                         [i \in 1..Len(rest) |-> Trim(rest[i])]))

parseTLE(tle) ==
  IF tle.type = "object" /\ tle.hasArr THEN Ok(tle)
  ELSE IF tle.type \notin {"array", "string"} THEN Err("TLE passed is invalid type")
  ELSE LET tleArr == IF tle.type = "array" THEN tle.items ELSE Split(tle.str, NL)
           named == Len(tleArr) > 2
           rest == IF named THEN Tail(tleArr) ELSE tleArr
       IN Ok(ParsedValue(IF named THEN tleArr[1] ELSE Unknown,
                         [i \in 1..Len(rest) |-> Trim(rest[i])]))

----------------------------------------------------------------------------
(* tleLineChecksum *)

\* one step of the reduce callback: sum is a number value, val a character
ChecksumStep(sum, val) ==
  IF sum.t = "nan" THEN NaNValue
  ELSE IF val \in Digit THEN Num(sum.ip + DigitVal(val))
  ELSE IF val = "-" THEN Num(sum.ip + 1)
  ELSE sum

\* the reduce over charArr[lo..hi], left to right, starting from sum
RECURSIVE ReduceFrom(_, _, _, _)
ReduceFrom(sum, charArr, lo, hi) ==
  IF lo > hi THEN sum
  ELSE IF lo = hi THEN ChecksumStep(sum, charArr[lo])
  ELSE LET mid == (lo + hi) \div 2
           left == ReduceFrom(sum, charArr, lo, mid)
       \* NaN + x is NaN for every x: a NaN sum stays NaN to the end
       IN IF left.t = "nan" THEN left ELSE ReduceFrom(left, charArr, mid + 1, hi)

Mod10(v) == IF v.t = "nan" THEN NaNValue ELSE Num(v.ip % 10)

tleLineChecksum(tleLine) ==
  LET charArr == IF tleLine = <<>> THEN <<>> ELSE SubSeq(tleLine, 1, Len(tleLine) - 1)
  IN IF Len(charArr) = 0 THEN Err("Character array empty!")
     ELSE IF Len(charArr) = 1
       \* reduce without an initial value returns the only element, a string
       THEN Ok(Mod10(ToNumberChar(charArr[1])))
       \* else the first element is the initial sum and goes through parseInt(sum)
       ELSE Ok(Mod10(ReduceFrom(ParseIntChar(charArr[1]), charArr, 2, Len(charArr))))

----------------------------------------------------------------------------
(* createTLEGetters: one getter per field of tleLines *)

Getter(prop, tle) ==
  LET parsed == parseTLE(tle)
  IN IF ~parsed.ok THEN parsed
     ELSE LET tleArr == parsed.val.arr
              f == tleLines[prop]
          IN IF f.line > Len(tleArr) THEN Err("TypeError: line is undefined")
             ELSE LET substr == Substr(tleArr[f.line], f.start, f.length)
                      parsedNum == ParseFloat(substr)
                  IN Ok(IF parsedNum.t = "num" THEN parsedNum ELSE StrVal(substr))

getLineNumber(n, tle) == Getter(IF n = 1 THEN "lineNumber1" ELSE "lineNumber2", tle)
getChecksum(n, tle) == Getter(IF n = 1 THEN "checksum1" ELSE "checksum2", tle)
getEpochYear(tle) == Getter("epochYear", tle)
getEpochDay(tle) == Getter("epochDay", tle)

----------------------------------------------------------------------------
(* isValidTLE *)

\* the forEach callback for line number lineNumber: Ok(TRUE/FALSE) or the error thrown
LineCheck(parsedTLE, lineNumber) ==
  LET parsedLineNumber == getLineNumber(lineNumber, parsedTLE)
      calculated == tleLineChecksum(parsedTLE.arr[lineNumber])
      parsedChecksum == getChecksum(lineNumber, parsedTLE)
  IN IF ~calculated.ok THEN calculated
     ELSE Ok(StrictEq(parsedLineNumber.val, Num(lineNumber))
             /\ StrictEq(parsedChecksum.val, calculated.val))

isValidTLE(tle) ==
  LET parsed == parseTLE(tle)
  IN IF ~parsed.ok THEN parsed
     ELSE IF Len(parsed.val.arr) # 2 THEN Ok(FALSE)
     ELSE LET first == LineCheck(parsed.val, 1)
          IN IF ~first.ok THEN first
             ELSE IF ~first.val THEN Ok(FALSE)   \* "Noop if already invalid"
             ELSE LineCheck(parsed.val, 2)

----------------------------------------------------------------------------
(* dayOfYearToTimeStamp, getEpochTimestamp, getTLEEpochTimestamp *)

UndefinedValue == [t |-> "undefined"]

\* !v for the values that reach an "a || b"
Falsy(v) ==
  \/ v.t \in {"undefined", "nan"}
  \/ v.t = "num" /\ v.ip = 0 /\ v.fp = 0
  \/ v.t = "str" /\ v.s = <<>>

\* An instant: the UTC start of a calendar year plus milliseconds.
TimeValue(year, ms) == [t |-> "time", year |-> year, ms |-> ms]

dayMS == 1000 * 60 * 60 * 24

\* The date parser's reading of a year of one or two digits in a date that is
\* not in ISO form: below the pivot it is 20yy, from the pivot on 19yy.
TwoDigitYearPivot == 50

\* new Date('1/1/' + year + ' 0:0:0 Z').getTime(): the year that starts, or NaN
YearStart(year) ==
  IF year.t # "num" \/ year.neg \/ year.fp # 0 THEN NaNValue
  ELSE IF year.ip < TwoDigitYearPivot THEN Num(2000 + year.ip)
  ELSE IF year.ip < 100 THEN Num(1900 + year.ip)
  ELSE Num(year.ip)

RECURSIVE Pow10(_)
Pow10(n) == IF n = 0 THEN 1 ELSE 10 * Pow10(n - 1)

FracUnit == Pow10(FracDigits)

\* Math.floor((dayOfYear - 1) * dayMS), dayOfYear = ip + fp / FracUnit >= 0
DayOffsetMs(dayOfYear) ==
  (dayOfYear.ip - 1) * dayMS
    + (dayOfYear.fp \div 100000) * (dayMS \div (FracUnit \div 100000))
    + ((dayOfYear.fp % 100000) * (dayMS \div 100000)) \div (FracUnit \div 100000)

dayOfYearToTimeStamp(dayOfYear, year, currentYear) ==
  LET yearOrNow == IF Falsy(year) THEN Num(currentYear) ELSE year
      yearStart == YearStart(yearOrNow)
  IN IF yearStart.t = "nan" \/ dayOfYear.t # "num" \/ dayOfYear.neg THEN NaNValue
     ELSE TimeValue(yearStart.ip, DayOffsetMs(dayOfYear))

getEpochTimestamp(tle, currentYear) ==
  LET epochDay == getEpochDay(tle)
      epochYear == getEpochYear(tle)
  IN IF ~epochDay.ok THEN epochDay
     ELSE Ok(dayOfYearToTimeStamp(epochDay.val, epochYear.val, currentYear))

getTLEEpochTimestamp(tle, currentYear) ==
  LET epochYear == getEpochYear(tle)
      epochDayOfYear == getEpochDay(tle)
  IN IF ~epochYear.ok THEN epochYear
     ELSE Ok(dayOfYearToTimeStamp(epochDayOfYear.val, epochYear.val, currentYear))

----------------------------------------------------------------------------
(* getSatelliteInfo and its memoisation *)

DigitChar(d) == CHOOSE c \in Digit : DigitVal(c) = d

RECURSIVE NatToStr(_)
NatToStr(n) == IF n < 10 THEN <<DigitChar(n)>> ELSE NatToStr(n \div 10) \o <<DigitChar(n % 10)>>

UndefinedStr == <<"u", "n", "d", "e", "f", "i", "n", "e", "d">>

\* ${x} in a template literal, x an optional integer
NumToStr(x) ==
  IF x = Undef THEN UndefinedStr
  ELSE IF x[1] < 0 THEN <<"-">> \o NatToStr(0 - x[1]) ELSE NatToStr(x[1])

\* ${tleArr[i]}, i 0-based
LineToStr(tleArr, i) == IF i + 1 <= Len(tleArr) THEN tleArr[i + 1] ELSE UndefinedStr

fnName == <<"getSatelliteInfo">>

cacheKey(tleArr, timestamp, observerLat, observerLng, observerHeight) ==
  fnName \o <<"-">> \o LineToStr(tleArr, 0) \o <<"-">> \o LineToStr(tleArr, 1)
    \o <<"-">> \o NumToStr(timestamp) \o <<"-">> \o NumToStr(observerLat)
    \o <<"-">> \o NumToStr(observerLng) \o <<"-">> \o NumToStr(observerHeight)

\* the mutant: the memo is never found
CacheHasNever(c, key) == FALSE

\* this.cache[cacheKey] is truthy: every stored value is an object
CacheHas(c, key) == key \in DOMAIN c

\* the mutant: the result is not stored
CachePutNothing(c, key, output) == c

\* this.cache[cacheKey] = output
CachePut(c, key, output) ==
  [k \in DOMAIN c \cup {key} |-> IF k = key THEN output ELSE c[k]]

\* Observer coordinates are whole degrees and whole km in the calls; the
\* default position is given in 10^-7 degree and in metres.
DegreeUnit == Pow10(7)
KmUnit == Pow10(3)
defaultObserverPosition == [lat |-> 369613422, lng |-> -1220308000, height |-> 370]

\* observerX || defaultObserverPosition.x
OrDefault(x, unit, default) == IF x = Undef \/ x[1] = 0 THEN default ELSE x[1] * unit

\* timestamp || Date.now()
OrNow(timestamp, clock) == IF timestamp = Undef \/ timestamp[1] = 0 THEN clock ELSE timestamp[1]

\* What the external library computes is kept as what it was computed from:
\* the satellite record of the two lines propagated to a time, seen from an
\* observer position.
Observation(tleArr, time, obsLat, obsLng, obsHeight) ==
  [position |-> [satrec |-> <<LineToStr(tleArr, 0), LineToStr(tleArr, 1)>>, time |-> time],
   observer |-> [lat |-> obsLat, lng |-> obsLng, height |-> obsHeight]]

\* the fields of the output object
LngOf(output) == [q |-> "lng", of |-> output.position]
LatOf(output) == [q |-> "lat", of |-> output.position]
ElevationOf(output) == [q |-> "elevation", of |-> output.position, from |-> output.observer]
AzimuthOf(output) == [q |-> "azimuth", of |-> output.position, from |-> output.observer]
RangeOf(output) == [q |-> "range", of |-> output.position, from |-> output.observer]

\* the outcome of a call: what it returns or throws, the cache it leaves,
\* the propagator invocations it made and the keys it assigned
Outcome(r, c, n, w) == [ret |-> r, cache |-> c, propCalls |-> n, wrote |-> w]

\* satError: whether the library reports an error for this propagation
getSatelliteInfo(c, clock, tle, timestamp, observerLat, observerLng, observerHeight, satError) ==
  LET timestampCopy == OrNow(timestamp, clock)
      parsed == parseTLE(tle)
  IN IF ~parsed.ok THEN Outcome(parsed, c, 0, <<>>)
     ELSE LET tleArr == parsed.val.arr
              key == cacheKey(tleArr, timestamp, observerLat, observerLng, observerHeight)
          IN IF CacheHas(c, key) THEN Outcome(Ok(c[key]), c, 0, <<>>)
             ELSE LET obsLat == OrDefault(observerLat, DegreeUnit, defaultObserverPosition.lat)
                      obsLng == OrDefault(observerLng, DegreeUnit, defaultObserverPosition.lng)
                      obsHeight == OrDefault(observerHeight, KmUnit, defaultObserverPosition.height)
                      output == Observation(tleArr, timestampCopy, obsLat, obsLng, obsHeight)
                  IN IF satError
                     THEN Outcome(Err("Error: problematic TLE with unexpected eccentricity"),
                                  c, 1, <<>>)
                     ELSE Outcome(Ok(output), CachePut(c, key, output), 1, <<key>>)

----------------------------------------------------------------------------
(* The operations built on getSatelliteInfo *)

\* the mutant: the record is handed to getSatelliteInfo without validation
\* tleObj (line 446) and the value isValidTLE returns (line 449) are each
\* computed once: they are the single element of the set they are drawn from
getLatLonUnvalidated(c, clock, tle, timestamp, satError) ==
  CHOOSE outcome \in
    { IF ~tleObj.ok THEN Outcome(tleObj, c, 0, <<>>)
      ELSE LET satInfo == getSatelliteInfo(c, clock, ArrValue(tleObj.val.arr), timestamp,
                                           Undef, Undef, Undef, satError)
           IN IF ~satInfo.ret.ok THEN satInfo
              ELSE Outcome(Ok([lat |-> LatOf(satInfo.ret.val),
                               lng |-> LngOf(satInfo.ret.val)]),
                           satInfo.cache, satInfo.propCalls, satInfo.wrote)
      : tleObj \in {parseTLE(tle)} } : TRUE

getLatLon(c, clock, tle, timestamp, satError) ==
  CHOOSE outcome \in
    { IF ~tleObj.ok THEN Outcome(tleObj, c, 0, <<>>)
      ELSE CHOOSE validated \in
        { IF ~valid.ok THEN Outcome(valid, c, 0, <<>>)
          ELSE IF ~valid.val THEN Outcome(Err("TLE could not be parsed"), c, 0, <<>>)
          ELSE LET satInfo == getSatelliteInfo(c, clock, ArrValue(tleObj.val.arr), timestamp,
                                               Undef, Undef, Undef, satError)
               IN IF ~satInfo.ret.ok THEN satInfo
                  ELSE Outcome(Ok([lat |-> LatOf(satInfo.ret.val),
                                   lng |-> LngOf(satInfo.ret.val)]),
                               satInfo.cache, satInfo.propCalls, satInfo.wrote)
          : valid \in {isValidTLE(tleObj.val)} } : TRUE
      : tleObj \in {parseTLE(tle)} } : TRUE

getLatLonArr(c, clock, tle, timestamp, satError) ==
  LET ll == getLatLon(c, clock, tle, timestamp, satError)
  IN IF ~ll.ret.ok THEN ll
     ELSE Outcome(Ok(<<ll.ret.val.lat, ll.ret.val.lng>>), ll.cache, ll.propCalls, ll.wrote)

\* lat, lng and height are parameters of the function and are not passed on
getLookAngles(c, clock, tle, timestamp, lat, lng, height, satError) ==
  LET satInfo == getSatelliteInfo(c, clock, tle, timestamp, Undef, Undef, Undef, satError)
  IN IF ~satInfo.ret.ok THEN satInfo
     ELSE Outcome(Ok([elevation |-> ElevationOf(satInfo.ret.val),
                      azimuth |-> AzimuthOf(satInfo.ret.val),
                      range |-> RangeOf(satInfo.ret.val)]),
                  satInfo.cache, satInfo.propCalls, satInfo.wrote)

\* getDistanceBetweenPointsGround(lat1, lng1, lat2, lng2) / 10
GroundSpeed(position1, position2) ==
  [q |-> "kmPerSec",
   from |-> <<LatOf(position1), LngOf(position1)>>,
   to |-> <<LatOf(position2), LngOf(position2)>>]

getSatGroundSpeed(c, clock, tle, timestamp, satError1, satError2) ==
  LET parsedTLE == parseTLE(tle)
      timestampCopy == OrNow(timestamp, clock)
      timestampPlus == timestampCopy + 10000
  IN IF ~parsedTLE.ok THEN Outcome(parsedTLE, c, 0, <<>>)
     ELSE LET position1 == getSatelliteInfo(c, clock, parsedTLE.val, Some(timestampCopy),
                                            Undef, Undef, Undef, satError1)
          IN IF ~position1.ret.ok THEN position1
             ELSE LET position2 == getSatelliteInfo(position1.cache, clock, parsedTLE.val,
                                                    Some(timestampPlus),
                                                    Undef, Undef, Undef, satError2)
                  IN Outcome(IF position2.ret.ok
                             THEN Ok(GroundSpeed(position1.ret.val, position2.ret.val))
                             ELSE position2.ret,
                             position2.cache,
                             position1.propCalls + position2.propCalls,
                             position1.wrote \o position2.wrote)

\* The declarations of lines 525-529 are read as the five declarations they
\* are meant to be.  The loop body then calls getLatLonArr as a free
\* identifier, which no scope defines (the method is this.getLatLonArr): the
\* first iteration throws, before anything is sampled or stored.
getGroundTrack(c, clock, tle, stepMS) ==
  LET defaultStepMS == 1000 * 60 * 1
      stepMSCopy == IF stepMS = Undef \/ stepMS[1] = 0 THEN defaultStepMS ELSE stepMS[1]
      timeOffset == 1000 * 60 * 60 * 3
      startTime == clock - timeOffset
      curMarkerTime == startTime
      endTime == clock + timeOffset
  IN IF curMarkerTime < endTime
     THEN Outcome(Err("ReferenceError: getLatLonArr is not defined"), c, 0, <<>>)
     ELSE Outcome(Ok(<<>>), c, 0, <<>>)

----------------------------------------------------------------------------
(* The state before any operation *)

EmptyCache == [k \in {} |-> 0]

\* nothing ran yet: the cache is empty (tle.cache: {})
NothingRan ==
  /\ ret = Ok(<<>>)
  /\ cache = EmptyCache
  /\ propCalls = 0
  /\ wrote = <<>>
  /\ returned = {}
  /\ calls = 0

\* a pure function is applied to the arguments drawn in the initial state
Apply(name, r) ==
  /\ calls = 0
  /\ op = name
  /\ ret' = r
  /\ calls' = 1
  /\ UNCHANGED <<op, args, cache, now, thisYear, propCalls, wrote, returned>>

----------------------------------------------------------------------------
(* The text operations on bounded inputs *)

MaxStrLen == 4
MaxLineLen == 3
MaxArrLen == 3

RECURSIVE SeqsUpTo(_, _)
SeqsUpTo(S, n) ==
  IF n = 0 THEN {<<>>}
  ELSE LET shorter == SeqsUpTo(S, n - 1)
       IN shorter \cup {Append(s, c) : s \in {t \in shorter : Len(t) = n - 1}, c \in S}

StrAlphabet == {"1", " ", NL, "N"}
ParseLines == {<<>>, <<"1">>, <<" ", "N">>}
ParseInputs ==
  {StrValue(s) : s \in SeqsUpTo(StrAlphabet, MaxStrLen)}
    \cup {ArrValue(a) : a \in SeqsUpTo(ParseLines, MaxArrLen + 1)}
    \cup {NumberValue, BareObject}

ChecksumAlphabet == {"1", "7", "-", "A", " ", "+"}
ChecksumLines == SeqsUpTo(ChecksumAlphabet, MaxLineLen)

\* full-width lines: two leading characters, blank columns, a last character
\* in the checksum column; and lines too short or too long for that column
Filler == [i \in 1..(tleLines.checksum1.start - 2) |-> " "]
FullLines ==
  {<<a, b>> \o Filler \o <<c>> : a \in {"1", "2", "A"}, b \in {"7", "-"},
                                 c \in {"2", "3", "8", "9", " "}}
ShortLines == {<<>>, <<"1">>, <<"1", "1">>, <<"2", "2">>}
LongLines == {<<"1", "7">> \o Filler \o <<"8", "0">>, <<"2", "7">> \o Filler \o <<"9", "9">>}
ValidityLines == FullLines \cup ShortLines \cup LongLines
SatName == <<"I", "S", "S">>

RECURSIVE Join(_, _)
Join(lines, sep) ==
  IF Len(lines) = 0 THEN <<>>
  ELSE IF Len(lines) = 1 THEN lines[1]
  ELSE lines[1] \o <<sep>> \o Join(Tail(lines), sep)

ValidityArrays ==
  {<<l>> : l \in ValidityLines}
    \cup {<<l1, l2>> : l1 \in ValidityLines, l2 \in ValidityLines}
    \cup {<<SatName, l1, l2>> : l1 \in ValidityLines, l2 \in ValidityLines}
ValidityInputs ==
  {ArrValue(a) : a \in ValidityArrays}
    \cup {StrValue(Join(a, NL)) : a \in ValidityArrays}
    \cup {ParsedValue(SatName, a) : a \in ValidityArrays}
    \cup {NumberValue}

InitText ==
  /\ NothingRan
  /\ now = 1
  /\ thisYear = 2026
  /\ \/ op = "parseTLE" /\ args \in ParseInputs
     \/ op = "tleLineChecksum" /\ args \in ChecksumLines
     \/ op = "isValidTLE" /\ args \in ValidityInputs

DoParseTLE == Apply("parseTLE", parseTLE(args))

\* the record a parseTLE call returned is parsed again
DoReparseTLE ==
  /\ op = "parseTLE"
  /\ calls = 1
  /\ ret.ok
  /\ args' = ret.val
  /\ ret' = parseTLE(ret.val)
  /\ calls' = 2
  /\ UNCHANGED <<op, cache, now, thisYear, propCalls, wrote, returned>>

DoTleLineChecksum == Apply("tleLineChecksum", tleLineChecksum(args))

DoIsValidTLE == Apply("isValidTLE", isValidTLE(args))

NextText == DoParseTLE \/ DoReparseTLE \/ DoTleLineChecksum \/ DoIsValidTLE

SpecText == InitText /\ [][NextText]_vars

----------------------------------------------------------------------------
(* Claims about the text operations *)

\* the lines of the record parseTLE makes of the arguments
ParsedLines == parseTLE(args).val.arr

LineNumberFieldIs(line, n) == Len(line) >= 1 /\ ParseFloat(<<line[1]>>) = Num(n)

StoredChecksumMatches(line) ==
  LET computed == tleLineChecksum(line)
      stored == ParseFloat(Substr(line, tleLines.checksum1.start, 1))
  IN computed.ok /\ StrictEq(stored, computed.val)

\* C1: for every input parseTLE accepts, isValidTLE returns true exactly when
\* the record has 2 lines, the line-number fields are 1 and 2, and on both
\* lines the digit in column 68 equals tleLineChecksum of the line; it
\* returns false when one of these fails.
IsValidIffConditions ==
  (op = "isValidTLE" /\ calls = 1 /\ parseTLE(args).ok) =>
    ret = Ok(/\ Len(ParsedLines) = 2
             /\ LineNumberFieldIs(ParsedLines[1], 1)
             /\ LineNumberFieldIs(ParsedLines[2], 2)
             /\ StoredChecksumMatches(ParsedLines[1])
             /\ StoredChecksumMatches(ParsedLines[2]))

Contribution(c) == IF c \in Digit THEN DigitVal(c) ELSE IF c = "-" THEN 1 ELSE 0

RECURSIVE SumOfContributions(_)
SumOfContributions(chars) ==
  IF chars = <<>> THEN 0 ELSE Contribution(Head(chars)) + SumOfContributions(Tail(chars))

\* C2: tleLineChecksum of a line with a character left after dropping the last
\* one is the sum of the contributions of the remaining characters (digit
\* value, 1 for "-", 0 otherwise) modulo 10, wherever each character stands;
\* with no character left it fails.
ChecksumIsContributionSum ==
  (op = "tleLineChecksum" /\ calls = 1) =>
    IF Len(args) >= 2
    THEN ret = Ok(Num(SumOfContributions(SubSeq(args, 1, Len(args) - 1)) % 10))
    ELSE ~ret.ok

\* C6: parseTLE is idempotent: parsing what parseTLE returned gives the same
\* outcome, and an already parsed record comes back unchanged, name and lines.
ParseTLEIdempotent ==
  (op = "parseTLE" /\ calls >= 1 /\ ret.ok) =>
    /\ parseTLE(ret.val) = ret
    /\ calls = 2 => ret.val = args

\* a record of three lines with a name of its own was parsed a second time
ReparsedThreeLineRecord ==
  /\ op = "parseTLE"
  /\ calls = 2
  /\ ret.ok
  /\ Len(ret.val.arr) = 3
  /\ ret.val.name # Unknown

----------------------------------------------------------------------------
(* The epoch operations on bounded inputs *)

Years == {2025, 2026}

\* epoch year fields: every pair of digits, and fields that are no number
YearFields == {<<a, b>> : a \in Digit, b \in Digit} \cup {<<" ", "5">>, <<" ", " ">>, <<"A", "B">>}

\* epoch days whose fraction is a multiple of a quarter (exact in binary floating point)
MaxEpochDay == 3
Quarters == {<<"0", "0">>, <<"2", "5">>, <<"5", "0">>, <<"7", "5">>}
DayFields ==
  {<<"0", "0", d, ".">> \o q \o <<"0", "0", "0", "0", "0", "0">> :
     d \in {c \in Digit : DigitVal(c) \in 1..MaxEpochDay}, q \in Quarters}

Blank(n) == [i \in 1..n |-> " "]

\* line 1 of a record with the given epoch fields in their columns
EpochLine1(yearField, dayField) ==
  <<"1">> \o Blank(tleLines.epochYear.start - 1)
    \o yearField \o dayField
    \o Blank(tleLines.checksum1.start - tleLines.epochDay.start - tleLines.epochDay.length)
    \o <<"0">>
EpochLine2 == <<"2">> \o Blank(tleLines.checksum2.start - 1) \o <<"2">>

FullYears == {1957, 1999, 2000, 2021, 2056}

InitEpoch ==
  /\ NothingRan
  /\ now = 1
  /\ thisYear \in Years
  /\ \/ /\ op \in {"getEpochTimestamp", "getTLEEpochTimestamp"}
        /\ \E y \in YearFields, d \in DayFields :
             args = ArrValue(<<EpochLine1(y, d), EpochLine2>>)
     \/ /\ op = "dayOfYearToTimeStamp"
        /\ \E d \in DayFields, y \in {Num(n) : n \in FullYears \cup 0..99} \cup {UndefinedValue} :
             args = [dayOfYear |-> ParseFloat(d), year |-> y]

DoGetEpochTimestamp == Apply("getEpochTimestamp", getEpochTimestamp(args, thisYear))

DoGetTLEEpochTimestamp == Apply("getTLEEpochTimestamp", getTLEEpochTimestamp(args, thisYear))

DoDayOfYearToTimeStamp ==
  Apply("dayOfYearToTimeStamp", Ok(dayOfYearToTimeStamp(args.dayOfYear, args.year, thisYear)))

NextEpoch == DoGetEpochTimestamp \/ DoGetTLEEpochTimestamp \/ DoDayOfYearToTimeStamp

SpecEpoch == InitEpoch /\ [][NextEpoch]_vars

\* the year the TLE convention gives a two-digit epoch year
ConventionYear(yy) == IF yy >= 57 THEN 1900 + yy ELSE 2000 + yy

\* (d - 1) x 86,400,000 ms for a day d whose fraction is a number of quarters
ExactOffsetMs(d) == (d.ip - 1) * 86400000 + (d.fp \div (FracUnit \div 4)) * 21600000

\* C8: for an epoch year field yy in 00..99 and epoch day d, getEpochTimestamp
\* and getTLEEpochTimestamp return the UTC start of year Y plus (d - 1) days
\* of 86,400,000 ms, Y = 1900 + yy for yy in 57..99 and 2000 + yy for 00..56
\* (2000 for yy = 00); dayOfYearToTimeStamp(1.0, Y) is the start of year Y
\* and dayOfYearToTimeStamp(1.5, Y) twelve hours later.
EpochFollowsConvention ==
  /\ (op \in {"getEpochTimestamp", "getTLEEpochTimestamp"} /\ calls = 1
      /\ getEpochYear(args).val.t = "num" /\ getEpochDay(args).val.t = "num") =>
       ret = Ok(TimeValue(ConventionYear(getEpochYear(args).val.ip),
                          ExactOffsetMs(getEpochDay(args).val)))
  /\ (op = "dayOfYearToTimeStamp" /\ calls = 1 /\ args.year.t = "num"
      /\ args.year.ip \in FullYears /\ args.dayOfYear.ip = 1 /\ args.dayOfYear.fp \in {0, FracUnit \div 2}) =>
       ret = Ok(TimeValue(args.year.ip, IF args.dayOfYear.fp = 0 THEN 0 ELSE 12 * 60 * 60 * 1000))

----------------------------------------------------------------------------
(* The memoised operations on bounded inputs *)

MaxClock == 2
MaxInfoCalls == 3
MaxOpsCalls == 2

GoodLine1 == <<"1", "7">> \o Filler \o <<"8">>
GoodLine2 == <<"2", "7">> \o Filler \o <<"9">>
BadLine2 == <<"2", "7">> \o Filler \o <<"3">>

GoodArr == ArrValue(<<GoodLine1, GoodLine2>>)
GoodStr == StrValue(Join(<<SatName, GoodLine1, GoodLine2>>, NL))
BadChecksum == ArrValue(<<GoodLine1, BadLine2>>)
EmptyLines == ArrValue(<< <<>>, <<>> >>)

NoObserver == <<Undef, Undef, Undef>>
AnObserver == <<Some(10), Some(-20), Some(1)>>

InfoArgs(tle, timestamp, observer) ==
  [tle |-> tle, timestamp |-> timestamp, observerLat |-> observer[1],
   observerLng |-> observer[2], observerHeight |-> observer[3]]

InfoInputs ==
  {InfoArgs(tle, timestamp, NoObserver) : tle \in {GoodArr, GoodStr}, timestamp \in {Undef, Some(5)}}
    \cup {InfoArgs(GoodStr, Some(0), NoObserver), InfoArgs(BadChecksum, Some(5), NoObserver)}
    \cup {InfoArgs(GoodArr, timestamp, AnObserver) : timestamp \in {Undef, Some(5)}}

OpsInfoInputs ==
  {InfoArgs(GoodStr, timestamp, observer) :
     timestamp \in {Undef, Some(5)}, observer \in {NoObserver, AnObserver}}

LatLonArgs(tle, timestamp) == [tle |-> tle, timestamp |-> timestamp]
LatLonInputs ==
  {LatLonArgs(GoodArr, Undef), LatLonArgs(GoodStr, Some(5)), LatLonArgs(BadChecksum, Some(5)),
   LatLonArgs(EmptyLines, Undef), LatLonArgs(NumberValue, Undef)}

LookInputs ==
  {InfoArgs(GoodArr, Undef, AnObserver), InfoArgs(GoodArr, Some(5), AnObserver),
   InfoArgs(GoodArr, Some(5), NoObserver)}

SpeedArgs(tle, timestamp, satError1, satError2) ==
  [tle |-> tle, timestamp |-> timestamp, satError1 |-> satError1, satError2 |-> satError2]
SpeedInputs ==
  {SpeedArgs(GoodArr, Some(5), e1, e2) : e1 \in BOOLEAN, e2 \in BOOLEAN}
    \cup {SpeedArgs(GoodArr, Undef, FALSE, FALSE), SpeedArgs(NumberValue, Undef, FALSE, FALSE)}

TrackArgs(tle, stepMS) == [tle |-> tle, stepMS |-> stepMS]
TrackInputs ==
  {TrackArgs(GoodArr, Undef), TrackArgs(GoodArr, Some(60000)),
   TrackArgs(GoodArr, Some(7000000)), TrackArgs(BadChecksum, Undef)}

InitCache ==
  /\ NothingRan
  /\ op = "init"
  /\ args = <<>>
  /\ now = 1
  /\ thisYear = 2026

\* an operation ran with outcome o
Call(name, a, o) ==
  /\ op' = name
  /\ args' = a
  /\ ret' = o.ret
  /\ cache' = o.cache
  /\ propCalls' = o.propCalls
  /\ wrote' = o.wrote
  /\ calls' = calls + 1
  /\ UNCHANGED <<now, thisYear>>

\* the clock advances between two operations
Tick ==
  /\ now < MaxClock
  /\ now' = now + 1
  /\ UNCHANGED <<op, args, ret, cache, thisYear, propCalls, wrote, returned, calls>>

WithError(a, satError) == [f \in DOMAIN a \cup {"satError"} |-> IF f = "satError" THEN satError ELSE a[f]]

GetSatelliteInfo(inputs) ==
  \E a \in inputs, satError \in BOOLEAN :
    LET o == getSatelliteInfo(cache, now, a.tle, a.timestamp,
                              a.observerLat, a.observerLng, a.observerHeight, satError)
    IN /\ Call("getSatelliteInfo", WithError(a, satError), o)
       /\ returned' =
            IF o.ret.ok
            THEN returned \cup {[lines |-> parseTLE(a.tle).val.arr, timestamp |-> a.timestamp,
                                 observerLat |-> a.observerLat, observerLng |-> a.observerLng,
                                 observerHeight |-> a.observerHeight, output |-> o.ret.val]}
            ELSE returned

InfoCall == calls < MaxInfoCalls /\ GetSatelliteInfo(InfoInputs)

NextInfo == InfoCall \/ Tick

SpecInfo == InitCache /\ [][NextInfo]_vars

OpsGetSatelliteInfo == calls < MaxOpsCalls /\ GetSatelliteInfo(OpsInfoInputs)

OpsGetLatLon ==
  /\ calls < MaxOpsCalls
  /\ \E a \in LatLonInputs, satError \in BOOLEAN :
       Call("getLatLon", WithError(a, satError),
            getLatLon(cache, now, a.tle, a.timestamp, satError))
  /\ UNCHANGED returned

OpsGetLookAngles ==
  /\ calls < MaxOpsCalls
  /\ \E a \in LookInputs, satError \in BOOLEAN :
       Call("getLookAngles", WithError(a, satError),
            getLookAngles(cache, now, a.tle, a.timestamp,
                          a.observerLat, a.observerLng, a.observerHeight, satError))
  /\ UNCHANGED returned

OpsGetSatGroundSpeed ==
  /\ calls < MaxOpsCalls
  /\ \E a \in SpeedInputs :
       Call("getSatGroundSpeed", a,
            getSatGroundSpeed(cache, now, a.tle, a.timestamp, a.satError1, a.satError2))
  /\ UNCHANGED returned

OpsGetGroundTrack ==
  /\ calls < MaxOpsCalls
  /\ \E a \in TrackInputs :
       Call("getGroundTrack", a, getGroundTrack(cache, now, a.tle, a.stepMS))
  /\ UNCHANGED returned

NextOps ==
  \/ OpsGetSatelliteInfo
  \/ OpsGetLatLon
  \/ OpsGetLookAngles
  \/ OpsGetSatGroundSpeed
  \/ OpsGetGroundTrack
  \/ Tick

SpecOps == InitCache /\ [][NextOps]_vars

----------------------------------------------------------------------------
(* Claims about getSatelliteInfo *)

SameArguments(h, a) ==
  /\ parseTLE(a.tle).ok
  /\ h.lines = parseTLE(a.tle).val.arr
  /\ h.timestamp = a.timestamp
  /\ h.observerLat = a.observerLat
  /\ h.observerLng = a.observerLng
  /\ h.observerHeight = a.observerHeight

\* C3: once a getSatelliteInfo call has returned, a later call with the same
\* record lines, timestamp and observer arguments returns the same
\* observation without invoking the propagator, whatever calls came between.
RepeatedCallHitsCache ==
  [][(op' = "getSatelliteInfo" /\ calls' = calls + 1) =>
       \A h \in returned :
         SameArguments(h, args') => ret'.ok /\ ret'.val = h.output /\ propCalls' = 0]_vars

\* a third call repeats an earlier one after a call that stored something else
RepeatedAfterAnotherCall ==
  /\ op = "getSatelliteInfo"
  /\ calls = 3
  /\ ret.ok
  /\ propCalls = 0
  /\ Cardinality(DOMAIN cache) = 2
  /\ \E h \in returned : SameArguments(h, args) /\ h.output = ret.val

\* the observation of the arguments in effect in a getSatelliteInfo call
EffectiveObservation(a, clock) ==
  Observation(parseTLE(a.tle).val.arr,
              OrNow(a.timestamp, clock),
              OrDefault(a.observerLat, DegreeUnit, defaultObserverPosition.lat),
              OrDefault(a.observerLng, DegreeUnit, defaultObserverPosition.lng),
              OrDefault(a.observerHeight, KmUnit, defaultObserverPosition.height))

\* C9: a getSatelliteInfo call returns a cached observation only if it was
\* computed for the same two lines, the same effective timestamp and the same
\* effective observer position; with the timestamp omitted, a call made after
\* the clock advanced returns an observation for the new current time.
CachedOnlyForSameEffectiveArguments ==
  [][(op' = "getSatelliteInfo" /\ calls' = calls + 1 /\ ret'.ok /\ propCalls' = 0) =>
       ret'.val = EffectiveObservation(args', now)]_vars

----------------------------------------------------------------------------
(* Claims about the operations built on getSatelliteInfo *)

IsValid(tle) == LET valid == isValidTLE(tle) IN valid.ok /\ valid.val

\* C4: getLatLon validates first: for a record that is not valid it fails,
\* never calls the propagator and leaves the cache as it was; for a valid
\* record it returns the lat and lng of getSatelliteInfo for that record and
\* timestamp.
GetLatLonValidatesFirst ==
  [][(op' = "getLatLon" /\ calls' = calls + 1) =>
       IF ~IsValid(args'.tle)
       THEN ~ret'.ok /\ propCalls' = 0 /\ cache' = cache
       ELSE LET info == getSatelliteInfo(cache, now, args'.tle, args'.timestamp,
                                         Undef, Undef, Undef, args'.satError)
            IN IF info.ret.ok
               THEN /\ ret'.ok
                    /\ ret'.val = [lat |-> LatOf(info.ret.val), lng |-> LngOf(info.ret.val)]
               ELSE ~ret'.ok]_vars

\* getLatLon refused a record with a wrong checksum while the cache held an entry
InvalidRecordRefused ==
  /\ op = "getLatLon"
  /\ calls = 2
  /\ args.tle = BadChecksum
  /\ ~ret.ok
  /\ cache # EmptyCache

Ceil(a, b) == (a + b - 1) \div b

\* C5: for a valid record getGroundTrack returns ceil(21600000 / stepMs)
\* [lat, lng] pairs, the i-th being getLatLon at (now - 3 h) + i * stepMs,
\* all before now + 3 h; the step is 60000 ms when omitted (360 pairs).
GroundTrackSamplesWindow ==
  [][(op' = "getGroundTrack" /\ calls' = calls + 1 /\ IsValid(args'.tle)) =>
       LET stepMs == IF args'.stepMS = Undef THEN 60000 ELSE args'.stepMS[1]
           count == Ceil(21600000, stepMs)
           SampleTime(i) == (now - 10800000) + i * stepMs
           Sample(i) == Observation(parseTLE(args'.tle).val.arr, SampleTime(i),
                                    defaultObserverPosition.lat, defaultObserverPosition.lng,
                                    defaultObserverPosition.height)
       IN /\ ret'.ok
          /\ Len(ret'.val) = count
          /\ \A i \in 0..(count - 1) :
               /\ SampleTime(i) < now + 10800000
               /\ ret'.val[i + 1] = <<LatOf(Sample(i)), LngOf(Sample(i))>>]_vars

\* C7: getLookAngles(record, timestamp, observer) returns the elevation,
\* azimuth and range that getSatelliteInfo returns for the same record,
\* timestamp and observer latitude, longitude and height.
LookAnglesOfGivenObserver ==
  [][(op' = "getLookAngles" /\ calls' = calls + 1) =>
       LET info == getSatelliteInfo(cache, now, args'.tle, args'.timestamp, args'.observerLat,
                                    args'.observerLng, args'.observerHeight, args'.satError)
       IN IF info.ret.ok
          THEN /\ ret'.ok
               /\ ret'.val = [elevation |-> ElevationOf(info.ret.val),
                              azimuth |-> AzimuthOf(info.ret.val),
                              range |-> RangeOf(info.ret.val)]
          ELSE ~ret'.ok]_vars

\* what every step does to the cache: entries stay as they are, and an
\* operation assigns only keys that were absent, each once
EntriesKeptAndWrittenOnce ==
  /\ \A k \in DOMAIN cache : k \in DOMAIN cache' /\ cache'[k] = cache[k]
  /\ calls' # calls =>
       /\ DOMAIN cache' = DOMAIN cache \cup {wrote'[i] : i \in 1..Len(wrote')}
       /\ \A i \in 1..Len(wrote') :
            /\ wrote'[i] \notin DOMAIN cache
            /\ \A j \in 1..Len(wrote') : wrote'[j] = wrote'[i] => j = i

\* C10, as stated: the cache only grows, no entry is removed or replaced, a
\* key is written at most once, and a call that fails stores nothing.
FailedCallStoresNothing ==
  [][/\ EntriesKeptAndWrittenOnce
     /\ (calls' # calls /\ ~ret'.ok) => cache' = cache]_vars

\* C10, amended: the cache only grows, no entry is removed or replaced, a key
\* is written at most once, and a getSatelliteInfo, getLatLon, getLookAngles
\* or getGroundTrack call that fails stores nothing; a getSatGroundSpeed call
\* that fails stores at most the observation of its first sample.
CacheOnlyGrows ==
  [][/\ EntriesKeptAndWrittenOnce
     /\ (calls' # calls /\ ~ret'.ok /\ op' # "getSatGroundSpeed") => cache' = cache
     /\ (calls' # calls /\ ~ret'.ok /\ op' = "getSatGroundSpeed") =>
          \/ cache' = cache
          \/ /\ Len(wrote') = 1
             /\ wrote'[1] = cacheKey(parseTLE(args'.tle).val.arr,
                                     Some(OrNow(args'.timestamp, now)), Undef, Undef, Undef)]_vars

\* getSatGroundSpeed failed at its second sample with the first one stored,
\* next to an entry of an earlier call
SpeedFailedAfterFirstSample ==
  /\ op = "getSatGroundSpeed"
  /\ calls = 2
  /\ ~ret.ok
  /\ Len(wrote) = 1
  /\ Cardinality(DOMAIN cache) = 2

====
